---- MODULE Spec2Model ----
(***************************************************************************)
(* A model of ryuu's safe formatting API (src/src/format.rs): the          *)
(* Formatted value (bytes, meta, initialized), the two checking and        *)
(* non-checking entry points that build it, and the read views             *)
(* as_bytes / as_str / as_str_fixed_dp / copy_to_bytes that operate on it. *)
(*                                                                         *)
(* Bytes are one-character strings, a text is a sequence of them.  usize   *)
(* arithmetic keeps its width: additions are taken modulo 2^UsizeBits in   *)
(* a build without overflow checks and panic in a build with them.         *)
(***************************************************************************)
EXTENDS Integers, Sequences, FiniteSets, TLC

VARIABLES
    overflow_checks,  \* build profile: TRUE = arithmetic overflow panics (debug)
    phase,            \* "new" | "ready" | "returned"
    formatted,        \* the Formatted value under observation
    call,             \* the last operation and its argument: DECIMAL_PLACES or the float
    buf_in,           \* the caller's buffer as handed to copy_to_bytes
    buf,              \* the caller's buffer after the call
    ret,              \* Option<usize> returned by copy_to_bytes (or a panic / fault)
    view              \* the borrowed text returned by as_str / as_bytes / as_str_fixed_dp

vars == <<overflow_checks, phase, formatted, call, buf_in, buf, ret, view>>

----------------------------------------------------------------------------
(* Bounds of the model *)

\* longest digit sequence the digit generator hands to the renderer
MaxDigits == 3
\* largest "ordinary" DECIMAL_PLACES tried: 0..MaxN
MaxN == 3
\* DECIMAL_PLACES at the top of the machine word: usize::MAX - k, k in 0..MaxNBack
MaxNBack == 2
\* longest destination buffer handed to copy_to_bytes
MaxBufLen == 10

----------------------------------------------------------------------------
(* Program constants *)

BUFFER_LEN == 32

\* width of usize on the target; 16 is the narrowest pointer width Rust has
UsizeBits == 16
USIZE_MOD == 2 ^ UsizeBits
USIZE_MAX == USIZE_MOD - 1

\* biased exponent field of an f64 / f32 with every bit of EXP_MASK set
F64_EXP_ALL_ONES == 2047
F32_EXP_ALL_ONES == 255

\* f64::to_bits() / f32::to_bits(): a bit pattern is the tuple of its 16-bit
\* limbs, most significant first (four for 64 bits, two for 32)
F64_EXP_MASK == <<32752, 0, 0, 0>>                   \* 0x7ff0000000000000
F64_MANTISSA_MASK == <<15, 65535, 65535, 65535>>     \* 0x000fffffffffffff
F64_SIGN_MASK == <<32768, 0, 0, 0>>                  \* 0x8000000000000000
F32_EXP_MASK == <<32640, 0>>                         \* 0x7f800000
F32_MANTISSA_MASK == <<127, 65535>>                  \* 0x007fffff
F32_SIGN_MASK == <<32768, 0>>                        \* 0x80000000

NAN == <<"N", "a", "N">>
INFINITY == <<"i", "n", "f">>
NEG_INFINITY == <<"-", "i", "n", "f">>

\* a byte of `bytes` that was never written (MaybeUninit::uninit())
UNINIT == "uninit"
\* what the caller's buffer holds before the call
JUNK == "#"

----------------------------------------------------------------------------
(* Sequences of bytes *)

Take(s, n) == SubSeq(s, 1, n)
Skip(s, n) == SubSeq(s, n + 1, Len(s))
Fill(b, n) == [i \in 1..n |-> b]
Min(a, b) == IF a < b THEN a ELSE b

\* ptr::copy_nonoverlapping(src, dst.add(at), count) and write_bytes: the bytes of
\* `data` land at dst[at .. at + Len(data)); dst is 0-based in the code, 1-based here
WriteAt(dst, at, data) ==
    [i \in 1..Len(dst) |->
        IF at < i /\ i <= at + Len(data) THEN data[i - at] ELSE dst[i]]

DigitChars == <<"0", "1", "2", "3", "4", "5", "6", "7", "8", "9">>
IsDigit(c) == \E k \in 1..10 : DigitChars[k] = c
DigitValue(c) == (CHOOSE k \in 1..10 : DigitChars[k] = c) - 1

RECURSIVE NatToText(_)
NatToText(n) ==
    IF n < 10 THEN <<DigitChars[n + 1]>>
    ELSE NatToText(n \div 10) \o <<DigitChars[(n % 10) + 1]>>

----------------------------------------------------------------------------
(* Option<usize> *)

None == <<>>
Some(x) == <<x>>
IsSome(o) == Len(o) = 1
Unwrap(o) == o[1]

----------------------------------------------------------------------------
(* FormattedMeta: the three layouts, as format.rs destructures them *)

MetaDecimal(offset_decimal_point) ==
    [tag |-> "Decimal", offset_decimal_point |-> offset_decimal_point]
MetaExponent(offset_decimal_point, offset_exponent) ==
    [tag |-> "Exponent",
     offset_decimal_point |-> offset_decimal_point,   \* Option<usize>
     offset_exponent |-> offset_exponent]
MetaNonfinite == [tag |-> "Nonfinite"]

----------------------------------------------------------------------------
(* The digit renderer (crate::raw, not among the sources): the layout rules  *)
(* of the Digit Renderer.  A Digit Sequence Result is a sign, the digits     *)
(* d1 d2 .. dn (no leading zero, trailing zeros stripped) and the decimal    *)
(* exponent E of the leading digit: the value is d1.d2..dn * 10^E.           *)

\* plain decimal layout is used for MinDecimalExponent <= E <= MaxDecimalExponent
MinDecimalExponent == -5
MaxDecimalExponent == 15

NonzeroDigits == {"1", "9"}
AnyDigits == {"0"} \cup NonzeroDigits
DigitSequences ==
    UNION {{ds \in [1..n -> AnyDigits] : ds[1] \in NonzeroDigits /\ ds[n] \in NonzeroDigits}
           : n \in 1..MaxDigits}
DecimalExponents == {-7, -2, 0, 1, 20}

Abs(x) == IF x < 0 THEN -x ELSE x

Render(negative, ds, E) ==
    LET n == Len(ds)
        s == IF negative THEN <<"-">> ELSE <<>>
    IN  IF MinDecimalExponent <= E /\ E <= MaxDecimalExponent
        THEN IF E >= n - 1
             THEN \* 1234e7 -> 12340000000.0
                  [text |-> s \o ds \o Fill("0", E - (n - 1)) \o <<".", "0">>,
                   meta |-> MetaDecimal(Len(s) + E + 1)]
             ELSE IF E >= 0
             THEN \* 1234e-2 -> 12.34
                  [text |-> s \o Take(ds, E + 1) \o <<".">> \o Skip(ds, E + 1),
                   meta |-> MetaDecimal(Len(s) + E + 1)]
             ELSE \* 1234e-6 -> 0.001234
                  [text |-> s \o <<"0", ".">> \o Fill("0", (-E) - 1) \o ds,
                   meta |-> MetaDecimal(Len(s) + 1)]
        ELSE LET mant == s \o <<ds[1]>>
                         \o (IF n > 1 THEN <<".">> \o Skip(ds, 1) ELSE <<>>)
                 expo == <<"e">> \o (IF E < 0 THEN <<"-">> ELSE <<>>) \o NatToText(Abs(E))
             IN  [text |-> mant \o expo,
                  meta |-> MetaExponent(IF n > 1 THEN Some(Len(s) + 1) ELSE None,
                                        Len(mant))]

\* The IEEE 754 fields of a bit pattern, as the decoder reads them: sign in
\* the top bit, then 11 (8) bits of biased exponent, then the mantissa.
SignField(d) == d[1] \div 32768
ExponentField64(d) == (d[1] % 32768) \div 16
ExponentField32(d) == (d[1] % 32768) \div 128
MantissaIsZero64(d) == d[1] % 16 = 0 /\ d[2] = 0 /\ d[3] = 0 /\ d[4] = 0
MantissaIsZero32(d) == d[1] % 128 = 0 /\ d[2] = 0

\* the most digits a shortest representation can have, and the longest
\* sequence tried: 1999..9
MaxDigits64 == 17
MaxDigits32 == 9
LongestDigits(n) == [i \in 1..n |-> IF i = 1 THEN "1" ELSE "9"]
\* the exponents that make the longest texts: the smallest normal power of
\* ten in scientific layout, the smallest exponent of the plain layout
ExtremeExponents64 == {-308, MinDecimalExponent}
ExtremeExponents32 == {-38, MinDecimalExponent}

\* raw::format64_spec: every rendering the digit generator may ask for.  Zero
\* bypasses digit generation and yields the single digit 0.
format64_spec(d) ==
    IF ExponentField64(d) = 0 /\ MantissaIsZero64(d)
    THEN {Render(SignField(d) = 1, <<"0">>, 0)}
    ELSE {Render(SignField(d) = 1, ds, E) : ds \in DigitSequences, E \in DecimalExponents}
         \cup {Render(SignField(d) = 1, LongestDigits(MaxDigits64), E)
                : E \in ExtremeExponents64}

\* raw::format32_spec
format32_spec(d) ==
    IF ExponentField32(d) = 0 /\ MantissaIsZero32(d)
    THEN {Render(SignField(d) = 1, <<"0">>, 0)}
    ELSE {Render(SignField(d) = 1, ds, E) : ds \in DigitSequences, E \in DecimalExponents}
         \cup {Render(SignField(d) = 1, LongestDigits(MaxDigits32), E)
                : E \in ExtremeExponents32}

----------------------------------------------------------------------------
(* Formatter: the entry points *)

\* a & b on one limb, and on a whole bit pattern
RECURSIVE BitAnd(_, _)
BitAnd(a, b) ==
    IF a = 0 \/ b = 0 THEN 0
    ELSE (a % 2) * (b % 2) + 2 * BitAnd(a \div 2, b \div 2)
And(bits, mask) == [i \in DOMAIN bits |-> BitAnd(bits[i], mask[i])]
IsZero(bits) == \A i \in DOMAIN bits : bits[i] = 0

\* the test that takes any set exponent bit for an exponent of all ones
is_nonfinite_f64_any_bit(d) == ~IsZero(And(d, F64_EXP_MASK))

\* bits & EXP_MASK == EXP_MASK
is_nonfinite_f64(d) == And(d, F64_EXP_MASK) = F64_EXP_MASK
is_nonfinite_f32(f) == And(f, F32_EXP_MASK) = F32_EXP_MASK

\* the classification that looks at the sign before the mantissa
format_nonfinite_f64_sign_first(d) ==
    IF ~IsZero(And(d, F64_SIGN_MASK)) THEN NEG_INFINITY
    ELSE IF ~IsZero(And(d, F64_MANTISSA_MASK)) THEN NAN
    ELSE INFINITY

format_nonfinite_f64(d) ==
    IF ~IsZero(And(d, F64_MANTISSA_MASK)) THEN NAN
    ELSE IF ~IsZero(And(d, F64_SIGN_MASK)) THEN NEG_INFINITY
    ELSE INFINITY

format_nonfinite_f32(f) ==
    IF ~IsZero(And(f, F32_MANTISSA_MASK)) THEN NAN
    ELSE IF ~IsZero(And(f, F32_SIGN_MASK)) THEN NEG_INFINITY
    ELSE INFINITY

\* `text` copied to the front of a fresh [MaybeUninit::uninit(); BUFFER_LEN]
Formatted(text, meta) ==
    [bytes |-> text \o Fill(UNINIT, BUFFER_LEN - Len(text)),
     meta |-> meta,
     initialized |-> Len(text)]

format_finite_f64(d) ==
    {Formatted(offset_full.text, offset_full.meta) : offset_full \in format64_spec(d)}

format_finite_f32(f) ==
    {Formatted(offset_full.text, offset_full.meta) : offset_full \in format32_spec(f)}

\* the entry point that leaves the length of a non-finite text at zero
format_f64_uncounted(d) ==
    IF is_nonfinite_f64(d)
    THEN LET nonfinite_formatted == format_nonfinite_f64(d)
         IN  {[Formatted(nonfinite_formatted, MetaNonfinite) EXCEPT !.initialized = 0]}
    ELSE format_finite_f64(d)

format_f64(d) ==
    IF is_nonfinite_f64(d)
    THEN LET nonfinite_formatted == format_nonfinite_f64(d)
         IN  {Formatted(nonfinite_formatted, MetaNonfinite)}
    ELSE format_finite_f64(d)

\* the entry point that takes the whole array for the non-finite text
format_f32_whole_array(f) ==
    IF is_nonfinite_f32(f)
    THEN LET nonfinite_formatted == format_nonfinite_f32(f)
             whole == Formatted(nonfinite_formatted, MetaNonfinite)
         IN  {[whole EXCEPT !.initialized = Len(whole.bytes)]}
    ELSE format_finite_f32(f)

format_f32(f) ==
    IF is_nonfinite_f32(f)
    THEN LET nonfinite_formatted == format_nonfinite_f32(f)
         IN  {Formatted(nonfinite_formatted, MetaNonfinite)}
    ELSE format_finite_f32(f)

----------------------------------------------------------------------------
(* Formatted: the plain views *)

as_bytes(self) == Take(self.bytes, self.initialized)
as_str(self) == as_bytes(self)

----------------------------------------------------------------------------
(* usize arithmetic and what a call hands back *)

\* a + b on usize: the exact sum overflows when it does not fit the word
Overflows(sum) == sum >= USIZE_MOD
Wrap(sum) == sum % USIZE_MOD

RetUnit == [kind |-> "Unit", value |-> 0]      \* no call has returned
RetNone == [kind |-> "None", value |-> 0]      \* Option::None
RetSome(n) == [kind |-> "Some", value |-> n]   \* Option::Some(n)
RetStr == [kind |-> "Str", value |-> 0]        \* a &str / &[u8], held in `view`
RetPanic == [kind |-> "Panic", value |-> 0]    \* "attempt to add with overflow"
RetFault == [kind |-> "Fault", value |-> 0]    \* the process dies in an invalid access

Outcome(r, b) == [ret |-> r, buf |-> b]

\* buf.split_at_mut_checked(mid) is Some
split_at_mut_checked(b, mid) == mid <= Len(b)

----------------------------------------------------------------------------
(* Formatted::as_str_fixed_dp *)

\* the view that forgets the byte of the decimal point in its length
as_str_fixed_dp_short(self, DECIMAL_PLACES, checks) ==
    IF self.meta.tag = "Decimal"
    THEN LET sum1 == self.meta.offset_decimal_point + DECIMAL_PLACES
         IN  IF checks /\ Overflows(sum1 + 1)
             THEN [ret |-> RetPanic, view |-> <<>>]
             ELSE IF Wrap(sum1) < self.initialized
             THEN [ret |-> RetStr, view |-> Take(self.bytes, Wrap(sum1))]
             ELSE [ret |-> RetStr, view |-> as_str(self)]
    ELSE [ret |-> RetStr, view |-> as_str(self)]

\* the view that admits the byte one past the text
as_str_fixed_dp_inclusive(self, DECIMAL_PLACES, checks) ==
    IF self.meta.tag = "Decimal"
    THEN LET sum1 == self.meta.offset_decimal_point + DECIMAL_PLACES
             sum2 == Wrap(sum1) + 1
         IN  IF checks /\ (Overflows(sum1) \/ Overflows(sum2))
             THEN [ret |-> RetPanic, view |-> <<>>]
             ELSE IF Wrap(sum1) <= self.initialized
             THEN [ret |-> RetStr, view |-> Take(self.bytes, Wrap(sum2))]
             ELSE [ret |-> RetStr, view |-> as_str(self)]
    ELSE [ret |-> RetStr, view |-> as_str(self)]

\* the view that gives zero places the integer part alone, as the copy does
as_str_fixed_dp_integer_only(self, DECIMAL_PLACES, checks) ==
    IF self.meta.tag = "Decimal"
    THEN LET sum1 == self.meta.offset_decimal_point + DECIMAL_PLACES
             sum2 == Wrap(sum1) + 1
         IN  IF checks /\ (Overflows(sum1) \/ Overflows(sum2))
             THEN [ret |-> RetPanic, view |-> <<>>]
             ELSE IF DECIMAL_PLACES = 0
             THEN [ret |-> RetStr, view |-> Take(self.bytes, self.meta.offset_decimal_point)]
             ELSE IF Wrap(sum1) < self.initialized
             THEN [ret |-> RetStr, view |-> Take(self.bytes, Wrap(sum2))]
             ELSE [ret |-> RetStr, view |-> as_str(self)]
    ELSE [ret |-> RetStr, view |-> as_str(self)]

as_str_fixed_dp(self, DECIMAL_PLACES, checks) ==
    IF self.meta.tag = "Decimal"
    THEN LET offset_decimal_point == self.meta.offset_decimal_point
             sum1 == offset_decimal_point + DECIMAL_PLACES
             sum2 == Wrap(sum1) + 1
             target_length == Wrap(sum2)
         IN  IF checks /\ (Overflows(sum1) \/ Overflows(sum2))
             THEN [ret |-> RetPanic, view |-> <<>>]
             ELSE IF Wrap(sum1) < self.initialized
             THEN [ret |-> RetStr, view |-> Take(self.bytes, target_length)]
             ELSE [ret |-> RetStr, view |-> as_str(self)]
    ELSE [ret |-> RetStr, view |-> as_str(self)]

----------------------------------------------------------------------------
(* Formatted::copy_to_bytes, one operator per layout.  Each yields the set *)
(* of outcomes the call can have: a singleton unless the code runs into    *)
(* undefined behaviour.                                                    *)

\* the copy that takes the decimal point along
copy_decimal_integer_with_point(self, offset_decimal_point, b) ==
    IF ~split_at_mut_checked(b, offset_decimal_point)
    THEN {Outcome(RetNone, b)}
    ELSE {Outcome(RetSome(offset_decimal_point),
                  WriteAt(b, 0, Take(self.bytes, offset_decimal_point + 1)))}

\* FormattedMeta::Decimal, DECIMAL_PLACES == 0
copy_decimal_integer(self, offset_decimal_point, b) ==
    IF ~split_at_mut_checked(b, offset_decimal_point)
    THEN {Outcome(RetNone, b)}
    ELSE {Outcome(RetSome(offset_decimal_point),
                  WriteAt(b, 0, Take(self.bytes, offset_decimal_point)))}

\* the fill whose padding starts one byte early, over the last source digit
decimal_fill_pads_early(self, target_length, b) ==
    IF target_length <= self.initialized
    THEN WriteAt(b, 0, Take(self.bytes, target_length))
    ELSE LET copied == WriteAt(b, 0, Take(self.bytes, self.initialized))
         IN  WriteAt(copied, self.initialized - 1,
                     Fill("0", target_length - self.initialized + 1))

\* the fill that copies target_length bytes of the array whatever its
\* initialized part
decimal_fill_copies_array(self, target_length, b) ==
    WriteAt(b, 0, Take(self.bytes, target_length))

\* the bytes written once the destination is known to hold target_length bytes
decimal_fill(self, target_length, b) ==
    IF target_length <= self.initialized
    THEN WriteAt(b, 0, Take(self.bytes, target_length))
    ELSE LET copied == WriteAt(b, 0, Take(self.bytes, self.initialized))
         IN  WriteAt(copied, self.initialized, Fill("0", target_length - self.initialized))

\* the copy that writes what fits before it reports the shortfall
copy_decimal_places_partial(self, offset_decimal_point, DECIMAL_PLACES, b, checks) ==
    LET target_length == Wrap(Wrap(offset_decimal_point + DECIMAL_PLACES) + 1)
    IN  IF checks /\ Overflows(offset_decimal_point + DECIMAL_PLACES + 1)
        THEN {Outcome(RetPanic, b)}
        ELSE IF ~split_at_mut_checked(b, target_length)
        THEN {Outcome(RetNone, WriteAt(b, 0, Take(self.bytes, Min(Len(b), self.initialized))))}
        ELSE {Outcome(RetSome(target_length), decimal_fill(self, target_length, b))}

\* FormattedMeta::Decimal, DECIMAL_PLACES > 0
copy_decimal_places(self, offset_decimal_point, DECIMAL_PLACES, b, checks) ==
    LET sum1 == offset_decimal_point + DECIMAL_PLACES
        sum2 == Wrap(sum1) + 1
        target_length == Wrap(sum2)
    IN  IF checks /\ (Overflows(sum1) \/ Overflows(sum2))
        THEN {Outcome(RetPanic, b)}
        ELSE IF ~split_at_mut_checked(b, target_length)
        THEN {Outcome(RetNone, b)}
        ELSE {Outcome(RetSome(target_length), decimal_fill(self, target_length, b))}

\* (actual_integer_part, actual_decimal_part): the length of the sign and leading
\* digit, and of the '.' with the digits after it
actual_integer_part(offset_decimal_point, offset_exponent) ==
    IF IsSome(offset_decimal_point) THEN Unwrap(offset_decimal_point) ELSE offset_exponent
\* the decimal part measured without its '.'
actual_decimal_part_digits_only(offset_decimal_point, offset_exponent) ==
    IF IsSome(offset_decimal_point)
    THEN offset_exponent - Unwrap(offset_decimal_point) - 1
    ELSE 0

actual_decimal_part(offset_decimal_point, offset_exponent) ==
    IF IsSome(offset_decimal_point)
    THEN offset_exponent - Unwrap(offset_decimal_point)
    ELSE 0

\* The decimal part: what lands in buf_decimal_part, the target_decimal_part bytes
\* that follow the integer part.
exponent_decimal_fill(bytes_decimal_part, target_decimal_part, at, b) ==
    LET actual == Len(bytes_decimal_part)
    IN  IF target_decimal_part > 0
        THEN IF target_decimal_part >= actual
             THEN \* checked_sub is Some(remaining)
                  LET remaining == target_decimal_part - actual
                  IN  IF actual = 0
                      THEN LET point == WriteAt(b, at, <<".">>)
                           IN  IF remaining > 0
                               THEN WriteAt(point, at + 1, Fill("0", remaining - 1))
                               ELSE point
                      ELSE LET copied == WriteAt(b, at, bytes_decimal_part)
                           IN  WriteAt(copied, at + actual, Fill("0", remaining))
             ELSE \* checked_sub is None: truncate
                  WriteAt(b, at, Take(bytes_decimal_part, target_decimal_part))
        ELSE b

\* The three copies, in the code's order, into a destination that holds them.
exponent_fill(self, integer_len, decimal_len, target_decimal_part, b) ==
    LET bytes == as_bytes(self)
        bytes_integer_part == Take(bytes, integer_len)
        bytes_decimal_part == Take(Skip(bytes, integer_len), decimal_len)
        bytes_exponent_part == Skip(bytes, integer_len + decimal_len)
        with_integer == WriteAt(b, 0, bytes_integer_part)
        with_decimal == exponent_decimal_fill(bytes_decimal_part, target_decimal_part,
                                              integer_len, with_integer)
    IN  WriteAt(with_decimal, integer_len + target_decimal_part, bytes_exponent_part)

\* split_at_mut_unchecked past the end of the slice, then write_bytes of a length
\* near usize::MAX: undefined behaviour.  The integer part and the start of the
\* decimal part are in place when the '0' fill runs off the end of the caller's
\* buffer (and on through the memory behind it, which the model does not hold);
\* the builds either die in that write or come back with Some(target_length).
exponent_undefined(self, integer_len, decimal_len, target_length, b) ==
    LET bytes == as_bytes(self)
        with_integer == WriteAt(b, 0, Take(bytes, integer_len))
        with_decimal == IF decimal_len = 0
                        THEN WriteAt(with_integer, integer_len, <<".">>)
                        ELSE WriteAt(with_integer, integer_len,
                                     Take(Skip(bytes, integer_len), decimal_len))
        smashed == WriteAt(with_decimal,
                           integer_len + (IF decimal_len = 0 THEN 1 ELSE decimal_len),
                           Fill("0", Len(b)))
    IN  {Outcome(RetFault, smashed), Outcome(RetSome(target_length), smashed)}

\* the copy that measures the whole array instead of its initialized part
copy_exponent_whole_array(self, offset_decimal_point, offset_exponent, DECIMAL_PLACES, b, checks) ==
    LET sum1 == DECIMAL_PLACES + 1
        target_decimal_part == IF DECIMAL_PLACES = 0 THEN 0 ELSE Wrap(sum1)
        integer_len == actual_integer_part(offset_decimal_point, offset_exponent)
        decimal_len == actual_decimal_part(offset_decimal_point, offset_exponent)
        sum2 == (Len(self.bytes) - decimal_len) + target_decimal_part
        target_length == Wrap(sum2)
    IN  IF checks /\ ((DECIMAL_PLACES # 0 /\ Overflows(sum1)) \/ Overflows(sum2))
        THEN {Outcome(RetPanic, b)}
        ELSE IF ~split_at_mut_checked(b, target_length)
        THEN {Outcome(RetNone, b)}
        ELSE IF integer_len > target_length
                \/ target_decimal_part > target_length - integer_len
        THEN exponent_undefined(self, integer_len, decimal_len, target_length, b)
        ELSE {Outcome(RetSome(target_length),
                      exponent_fill(self, integer_len, decimal_len, target_decimal_part, b))}

\* FormattedMeta::Exponent
copy_exponent(self, offset_decimal_point, offset_exponent, DECIMAL_PLACES, b, checks) ==
    LET sum1 == DECIMAL_PLACES + 1
        target_decimal_part == IF DECIMAL_PLACES = 0 THEN 0 ELSE Wrap(sum1)
        integer_len == actual_integer_part(offset_decimal_point, offset_exponent)
        decimal_len == actual_decimal_part(offset_decimal_point, offset_exponent)
        sum2 == (self.initialized - decimal_len) + target_decimal_part
        target_length == Wrap(sum2)
    IN  IF checks /\ ((DECIMAL_PLACES # 0 /\ Overflows(sum1)) \/ Overflows(sum2))
        THEN {Outcome(RetPanic, b)}
        ELSE IF ~split_at_mut_checked(b, target_length)
        THEN {Outcome(RetNone, b)}
        ELSE IF integer_len > target_length
                \/ target_decimal_part > target_length - integer_len
        THEN exponent_undefined(self, integer_len, decimal_len, target_length, b)
        ELSE {Outcome(RetSome(target_length),
                      exponent_fill(self, integer_len, decimal_len, target_decimal_part, b))}

\* the copy that reports the destination's length instead of the bytes written
copy_nonfinite_reports_buffer(self, b) ==
    IF ~split_at_mut_checked(b, self.initialized)
    THEN {Outcome(RetNone, b)}
    ELSE {Outcome(RetSome(Len(b)), WriteAt(b, 0, as_bytes(self)))}

\* FormattedMeta::Nonfinite
copy_nonfinite(self, b) ==
    IF ~split_at_mut_checked(b, self.initialized)
    THEN {Outcome(RetNone, b)}
    ELSE {Outcome(RetSome(self.initialized), WriteAt(b, 0, as_bytes(self)))}

copy_to_bytes(self, DECIMAL_PLACES, b, checks) ==
    IF self.meta.tag = "Decimal"
    THEN IF DECIMAL_PLACES = 0
         THEN copy_decimal_integer(self, self.meta.offset_decimal_point, b)
         ELSE copy_decimal_places(self, self.meta.offset_decimal_point, DECIMAL_PLACES,
                                  b, checks)
    ELSE IF self.meta.tag = "Exponent"
    THEN copy_exponent(self, self.meta.offset_decimal_point, self.meta.offset_exponent,
                       DECIMAL_PLACES, b, checks)
    ELSE copy_nonfinite(self, b)

----------------------------------------------------------------------------
(* The state machine: one Formatted value is built, then read any number of *)
(* times; every read view borrows it immutably.                            *)

\* DECIMAL_PLACES tried: small values and the top of the machine word
DecimalPlaces == (0..MaxN) \cup {USIZE_MAX - k : k \in 0..MaxNBack}
BufLens == 0..MaxBufLen
\* the buffers tried with copy_to_bytes::<N>: the short ones, and the one of
\* BUFFER_LEN + N bytes where a slice can be that long
BufLensFor(N) ==
    BufLens \cup (IF BUFFER_LEN + N <= USIZE_MAX THEN {BUFFER_LEN + N} ELSE {})

\* The floats handed to the entry points: either sign; exponent field zero,
\* the bias, all ones; mantissa zero, lowest bit, highest bit.
Bits64(sign, exponent, mantissa) ==
    <<sign * 32768 + exponent * 16 + mantissa[1], mantissa[2], mantissa[3], mantissa[4]>>
Bits32(sign, exponent, mantissa) ==
    <<sign * 32768 + exponent * 128 + mantissa[1], mantissa[2]>>
F64Inputs ==
    {Bits64(s, e, m) : s \in {0, 1}, e \in {0, 1023, F64_EXP_ALL_ONES},
                       m \in {<<0, 0, 0, 0>>, <<0, 0, 0, 1>>, <<8, 0, 0, 0>>}}
F32Inputs ==
    {Bits32(s, e, m) : s \in {0, 1}, e \in {0, 127, F32_EXP_ALL_ONES},
                       m \in {<<0, 0>>, <<0, 1>>, <<64, 0>>}}

NoCall == [op |-> "none", dp |-> 0]
Unformatted == Formatted(<<>>, MetaNonfinite)

Init ==
    /\ overflow_checks \in BOOLEAN
    /\ phase = "new"
    /\ formatted = Unformatted
    /\ call = NoCall
    /\ buf_in = <<>>
    /\ buf = <<>>
    /\ ret = RetUnit
    /\ view = <<>>

\* Formatter::format_f64(d)
FormatF64(d) ==
    /\ phase = "new"
    /\ formatted' \in format_f64(d)
    /\ call' = [op |-> "format_f64", dp |-> 0, d |-> d]
    /\ phase' = "ready"
    /\ UNCHANGED <<overflow_checks, buf_in, buf, ret, view>>

\* Formatter::format_f32(f)
FormatF32(f) ==
    /\ phase = "new"
    /\ formatted' \in format_f32(f)
    /\ call' = [op |-> "format_f32", dp |-> 0, d |-> f]
    /\ phase' = "ready"
    /\ UNCHANGED <<overflow_checks, buf_in, buf, ret, view>>

\* Formatter::format_finite_f64(d)
FormatFiniteF64(d) ==
    /\ phase = "new"
    /\ formatted' \in format_finite_f64(d)
    /\ call' = [op |-> "format_finite_f64", dp |-> 0, d |-> d]
    /\ phase' = "ready"
    /\ UNCHANGED <<overflow_checks, buf_in, buf, ret, view>>

\* Formatter::format_finite_f32(f)
FormatFiniteF32(f) ==
    /\ phase = "new"
    /\ formatted' \in format_finite_f32(f)
    /\ call' = [op |-> "format_finite_f32", dp |-> 0, d |-> f]
    /\ phase' = "ready"
    /\ UNCHANGED <<overflow_checks, buf_in, buf, ret, view>>

\* formatted.copy_to_bytes::<N>(&mut b) on a caller's buffer of `len` bytes
CopyToBytes(N, len) ==
    /\ phase = "ready"
    /\ LET b == Fill(JUNK, len)
       IN  \E out \in copy_to_bytes(formatted, N, b, overflow_checks) :
               /\ buf_in' = b
               /\ buf' = out.buf
               /\ ret' = out.ret
    /\ call' = [op |-> "copy_to_bytes", dp |-> N]
    /\ view' = <<>>
    /\ phase' = "returned"
    /\ UNCHANGED <<overflow_checks, formatted>>

\* formatted.as_str_fixed_dp::<N>()
AsStrFixedDp(N) ==
    /\ phase = "ready"
    /\ LET out == as_str_fixed_dp(formatted, N, overflow_checks)
       IN  /\ ret' = out.ret
           /\ view' = out.view
    /\ call' = [op |-> "as_str_fixed_dp", dp |-> N]
    /\ phase' = "returned"
    /\ UNCHANGED <<overflow_checks, formatted, buf_in, buf>>

\* formatted.as_str()
AsStr ==
    /\ phase = "ready"
    /\ ret' = RetStr
    /\ view' = as_str(formatted)
    /\ call' = [op |-> "as_str", dp |-> 0]
    /\ phase' = "returned"
    /\ UNCHANGED <<overflow_checks, formatted, buf_in, buf>>

\* formatted.as_bytes()
AsBytes ==
    /\ phase = "ready"
    /\ ret' = RetStr
    /\ view' = as_bytes(formatted)
    /\ call' = [op |-> "as_bytes", dp |-> 0]
    /\ phase' = "returned"
    /\ UNCHANGED <<overflow_checks, formatted, buf_in, buf>>

\* the caller is done with the result: the borrows of the buffer and of the view end
Release ==
    /\ phase = "returned"
    /\ phase' = "ready"
    /\ call' = NoCall
    /\ buf_in' = <<>>
    /\ buf' = <<>>
    /\ ret' = RetUnit
    /\ view' = <<>>
    /\ UNCHANGED <<overflow_checks, formatted>>

Next ==
    \/ \E d \in F64Inputs : FormatF64(d)
    \/ \E f \in F32Inputs : FormatF32(f)
    \/ \E d \in F64Inputs : FormatFiniteF64(d)
    \/ \E f \in F32Inputs : FormatFiniteF32(f)
    \/ \E N \in DecimalPlaces : \E len \in BufLensFor(N) : CopyToBytes(N, len)
    \/ \E N \in DecimalPlaces : AsStrFixedDp(N)
    \/ AsStr
    \/ AsBytes
    \/ Release

Spec == Init /\ [][Next]_vars

\* The same program called with ordinary DECIMAL_PLACES only: no length
\* computation comes near the top of the machine word.
NextOrdinary ==
    \/ \E d \in F64Inputs : FormatF64(d)
    \/ \E f \in F32Inputs : FormatF32(f)
    \/ \E d \in F64Inputs : FormatFiniteF64(d)
    \/ \E f \in F32Inputs : FormatFiniteF32(f)
    \/ \E N \in 0..MaxN : \E len \in BufLensFor(N) : CopyToBytes(N, len)
    \/ \E N \in 0..MaxN : AsStrFixedDp(N)
    \/ AsStr
    \/ AsBytes
    \/ Release

SpecOrdinary == Init /\ [][NextOrdinary]_vars

----------------------------------------------------------------------------
(* Vocabulary of the properties *)

Text == as_str(formatted)
Layout == formatted.meta.tag
CopyReturned == phase = "returned" /\ call.op = "copy_to_bytes"
FixedDpReturned == phase = "returned" /\ call.op = "as_str_fixed_dp"
Succeeded == ret.kind = "Some"
\* the bytes a successful copy reports as written
Written == Take(buf, ret.value)

\* position of the first `c` in `s`, 0 when there is none
IndexOf(s, c) ==
    IF \E i \in 1..Len(s) : s[i] = c
    THEN CHOOSE i \in 1..Len(s) : s[i] = c /\ \A j \in 1..(i - 1) : s[j] # c
    ELSE 0

\* the source text cut at its layout's offsets
PointOffset == IF Layout = "Decimal" THEN formatted.meta.offset_decimal_point
               ELSE actual_integer_part(formatted.meta.offset_decimal_point,
                                        formatted.meta.offset_exponent)
SourceInteger == Take(Text, PointOffset)
\* the digits after the '.', none when the text has no '.'
SourceFraction ==
    IF Layout = "Decimal" THEN Skip(Text, PointOffset + 1)
    ELSE IF IsSome(formatted.meta.offset_decimal_point)
    THEN SubSeq(Text, PointOffset + 2, formatted.meta.offset_exponent)
    ELSE <<>>
SourceExponent == IF Layout = "Exponent" THEN Skip(Text, formatted.meta.offset_exponent)
                  ELSE <<>>

\* the first n digits of `fraction`, '0'-padded when it has fewer
FixedFraction(fraction, n) ==
    IF Len(fraction) >= n THEN Take(fraction, n)
    ELSE fraction \o Fill("0", n - Len(fraction))

\* K, the exact output length of copy_to_bytes::<n>, as an unbounded integer
ExactLength(n) ==
    IF Layout = "Decimal" THEN (IF n = 0 THEN PointOffset ELSE PointOffset + n + 1)
    ELSE IF Layout = "Exponent"
    THEN formatted.initialized
         - (IF Len(SourceFraction) = 0 /\ ~IsSome(formatted.meta.offset_decimal_point)
            THEN 0 ELSE Len(SourceFraction) + 1)
         + (IF n = 0 THEN 0 ELSE n + 1)
    ELSE formatted.initialized

\* DECIMAL_PLACES whose exact output length fits the machine word
LengthFits(n) == ExactLength(n) <= USIZE_MAX

----------------------------------------------------------------------------
(* C1: whenever copy_to_bytes::<N> returns None, no byte of the destination *)
(* buffer has been modified, in every layout.                               *)
C1_NoneLeavesBufferUntouched ==
    (CopyReturned /\ ret = RetNone) => buf = buf_in

\* a refused copy into a buffer that could have taken the integer part and the
\* point but not the N digits: a partial write would show
C1_Witness ==
    /\ CopyReturned /\ ret = RetNone
    /\ Layout = "Decimal" /\ call.dp > 0
    /\ Len(buf_in) > PointOffset

----------------------------------------------------------------------------
(* C2: with K the exact output length of copy_to_bytes::<N>, the call       *)
(* returns None for every buffer shorter than K and Some(K), with all of    *)
(* the first K bytes written, for every buffer of at least K bytes.         *)
C2_ExactLengthDecides ==
    CopyReturned =>
        LET K == ExactLength(call.dp)
        IN  IF Len(buf_in) < K
            THEN ret = RetNone
            ELSE /\ ret = RetSome(K)
                 /\ \A i \in 1..K : buf[i] # JUNK

\* the same statement for the DECIMAL_PLACES whose exact length fits the word:
\* there the code and the claim agree
C2_ExactLengthDecidesWhereItFits ==
    (CopyReturned /\ LengthFits(call.dp)) =>
        LET K == ExactLength(call.dp)
        IN  IF Len(buf_in) < K
            THEN ret = RetNone
            ELSE /\ ret = RetSome(K)
                 /\ \A i \in 1..K : buf[i] # JUNK

----------------------------------------------------------------------------
(* C3: in Decimal layout with N > 0, a successful copy_to_bytes::<N> writes *)
(* the source text up to and including the '.', then exactly N fractional   *)
(* digits: the first N of the source, or all of them padded with '0'.       *)
C3_DecimalFixedFraction ==
    (CopyReturned /\ Layout = "Decimal" /\ call.dp > 0 /\ Succeeded) =>
        /\ ret.value = PointOffset + 1 + call.dp
        /\ Written = SourceInteger \o <<".">> \o FixedFraction(SourceFraction, call.dp)

\* the same statement where the exact length fits the word
C3_DecimalFixedFractionWhereItFits ==
    (CopyReturned /\ Layout = "Decimal" /\ call.dp > 0 /\ Succeeded
        /\ LengthFits(call.dp)) =>
        /\ ret.value = PointOffset + 1 + call.dp
        /\ Written = SourceInteger \o <<".">> \o FixedFraction(SourceFraction, call.dp)

----------------------------------------------------------------------------
(* C4: in Decimal layout, a successful copy_to_bytes::<0> writes exactly    *)
(* the bytes that precede the '.' (sign and integer digits), writes no      *)
(* decimal point, and returns offset_decimal_point.                         *)
C4_DecimalZeroPlaces ==
    (CopyReturned /\ Layout = "Decimal" /\ call.dp = 0) =>
        /\ ret.kind \in {"Some", "None"}
        /\ Succeeded =>
            /\ ret = RetSome(formatted.meta.offset_decimal_point)
            /\ Written = Take(Text, IndexOf(Text, ".") - 1)
            /\ \A i \in 1..Len(buf) : buf[i] # "."
            /\ Skip(buf, ret.value) = Skip(buf_in, ret.value)

\* "-19.9" copied with no decimal places into a buffer with room for more
C4_Witness ==
    /\ CopyReturned /\ Layout = "Decimal" /\ call.dp = 0 /\ Succeeded
    /\ Text[1] = "-"
    /\ ret.value >= 3
    /\ Len(buf_in) > ret.value

----------------------------------------------------------------------------
(* C5: in Exponent layout, for every N, the output of a successful          *)
(* copy_to_bytes::<N> begins with the source's integer part (optional '-'   *)
(* and the leading digit) and ends with the source's exponent section ('e'  *)
(* and the exponent digits); nothing follows the exponent section.          *)
C5_ExponentFrame ==
    (CopyReturned /\ Layout = "Exponent" /\ Succeeded) =>
        /\ ret.value >= Len(SourceInteger) + Len(SourceExponent)
        /\ Take(Written, Len(SourceInteger)) = SourceInteger
        /\ Skip(Written, ret.value - Len(SourceExponent)) = SourceExponent

\* the same statement where the exact length fits the word
C5_ExponentFrameWhereItFits ==
    (CopyReturned /\ Layout = "Exponent" /\ Succeeded /\ LengthFits(call.dp)) =>
        /\ ret.value >= Len(SourceInteger) + Len(SourceExponent)
        /\ Take(Written, Len(SourceInteger)) = SourceInteger
        /\ Skip(Written, ret.value - Len(SourceExponent)) = SourceExponent

----------------------------------------------------------------------------
(* C6: in Exponent layout, what a successful copy_to_bytes::<N> writes      *)
(* between the integer part and the 'e' is empty when N == 0, and otherwise *)
(* a '.' followed by exactly N digits: the first N source digits, or all of *)
(* them '0'-padded, or N '0' after a newly inserted '.'.                    *)
DecimalSectionIs(n) ==
    LET from == Len(SourceInteger) + 1
        to == ret.value - Len(SourceExponent)
    IN  IF n = 0
        THEN to = from - 1
        ELSE /\ to - from + 1 = n + 1
             /\ SubSeq(Written, from, to) = <<".">> \o FixedFraction(SourceFraction, n)

C6_ExponentDecimalSection ==
    (CopyReturned /\ Layout = "Exponent" /\ Succeeded) => DecimalSectionIs(call.dp)

\* the same statement where the exact length fits the word
C6_ExponentDecimalSectionWhereItFits ==
    (CopyReturned /\ Layout = "Exponent" /\ Succeeded /\ LengthFits(call.dp)) =>
        DecimalSectionIs(call.dp)

----------------------------------------------------------------------------
(* C7: in Nonfinite layout copy_to_bytes::<N> ignores N: for every N and    *)
(* every buffer of at least `initialized` bytes it writes exactly the bytes *)
(* of as_str() ("NaN", "inf" or "-inf") and returns Some(initialized).      *)
C7_NonfiniteIgnoresPlaces ==
    (CopyReturned /\ Layout = "Nonfinite" /\ Len(buf_in) >= formatted.initialized) =>
        /\ ret = RetSome(formatted.initialized)
        /\ Written = Text
        /\ Skip(buf, ret.value) = Skip(buf_in, ret.value)
        /\ Text \in {NAN, INFINITY, NEG_INFINITY}

\* "-inf" copied with DECIMAL_PLACES = usize::MAX into a longer buffer
C7_Witness ==
    /\ CopyReturned /\ Layout = "Nonfinite" /\ Succeeded
    /\ Text = NEG_INFINITY
    /\ call.dp = USIZE_MAX
    /\ Len(buf_in) > formatted.initialized

----------------------------------------------------------------------------
(* Reading a text as a number: sign, integer digits, fractional digits and *)
(* the exponent section after 'e'.                                         *)

AllDigits(ds) == \A i \in 1..Len(ds) : IsDigit(ds[i])

Mantissa(t) == IF IndexOf(t, "e") = 0 THEN t ELSE Take(t, IndexOf(t, "e") - 1)
ExponentSection(t) == IF IndexOf(t, "e") = 0 THEN <<>> ELSE Skip(t, IndexOf(t, "e") - 1)
IsNegative(t) == Len(t) > 0 /\ t[1] = "-"
Unsigned(t) == IF IsNegative(t) THEN Skip(t, 1) ELSE t
IntegerDigits(t) ==
    LET m == Unsigned(Mantissa(t))
    IN  IF IndexOf(m, ".") = 0 THEN m ELSE Take(m, IndexOf(m, ".") - 1)
FractionDigits(t) ==
    LET m == Unsigned(Mantissa(t))
    IN  IF IndexOf(m, ".") = 0 THEN <<>> ELSE Skip(m, IndexOf(m, "."))
IsNumber(t) ==
    /\ Len(IntegerDigits(t)) > 0
    /\ AllDigits(IntegerDigits(t))
    /\ AllDigits(FractionDigits(t))

Max(a, b) == IF a > b THEN a ELSE b

\* Numbers too long for a machine integer are kept as their decimal digits,
\* most significant first, and compared and subtracted digit by digit.
\* The magnitude of the mantissa of `t` in units of 10^-p, w + p digits long:
\* w >= Len(IntegerDigits(t)), p >= Len(FractionDigits(t))
Scaled(t, w, p) ==
    LET int == IntegerDigits(t)
        frac == FractionDigits(t)
        digits == int \o frac
    IN  Fill(0, w - Len(int))
        \o [i \in 1..Len(digits) |-> DigitValue(digits[i])]
        \o Fill(0, p - Len(frac))

\* a < b, for digit sequences of one length
Less(a, b) ==
    \E i \in 1..Len(a) : a[i] < b[i] /\ \A j \in 1..(i - 1) : a[j] = b[j]

\* a - b - borrow, for a >= b of one length
RECURSIVE Minus(_, _, _)
Minus(a, b, borrow) ==
    IF Len(a) = 0 THEN <<>>
    ELSE LET i == Len(a)
             d == a[i] - b[i] - borrow
         IN  Minus(Take(a, i - 1), Take(b, i - 1), IF d < 0 THEN 1 ELSE 0)
             \o <<IF d < 0 THEN d + 10 ELSE d>>

\* a + a + carry, the carry out of the first digit dropped
RECURSIVE Twice(_, _)
Twice(a, carry) ==
    IF Len(a) = 0 THEN <<>>
    ELSE LET i == Len(a)
             d == 2 * a[i] + carry
         IN  Twice(Take(a, i - 1), d \div 10) \o <<d % 10>>

\* |value(out) - value(src)| <= (half / 2) * 10^-n, both sharing sign and exponent;
\* `strict` makes the bound exclusive
Within(out, src, n, half, strict) ==
    /\ IsNumber(out)
    /\ IsNegative(out) = IsNegative(src)
    /\ ExponentSection(out) = ExponentSection(src)
    /\ LET p == Max(Len(FractionDigits(out)), Len(FractionDigits(src)))
           \* one digit to spare, for the doubling
           w == Max(Len(IntegerDigits(out)), Len(IntegerDigits(src))) + 1
           a == Scaled(out, w, p)
           b == Scaled(src, w, p)
           err == IF Less(a, b) THEN Minus(b, a, 0) ELSE Minus(a, b, 0)
           \* half * 10^(p - n)
           bound == [i \in 1..(w + p) |-> IF i = w + n THEN half ELSE 0]
       IN  IF p >= n
           THEN IF strict THEN Less(Twice(err, 0), bound)
                ELSE ~Less(bound, Twice(err, 0))
           ELSE \A i \in 1..Len(err) : err[i] = 0

----------------------------------------------------------------------------
----------------------------------------------------------------------------
(* C9: in Decimal layout, when the fractional part has at least N digits,   *)
(* as_str_fixed_dp::<N> returns the prefix of as_str() that ends exactly N  *)
(* digits after the '.': the text truncated, never rounded.                 *)
C9_FixedDpTruncates ==
    (FixedDpReturned /\ Layout = "Decimal" /\ Len(SourceFraction) >= call.dp) =>
        /\ ret = RetStr
        /\ view = Take(Text, IndexOf(Text, ".") + call.dp)

\* "0.0199" viewed with two decimal places: digits are dropped, the last kept one
\* is followed by a 9 that rounding would have carried
C9_Witness ==
    /\ FixedDpReturned /\ Layout = "Decimal"
    /\ call.dp = 2
    /\ Len(SourceFraction) = 4
    /\ SourceFraction[3] = "9"
    /\ view # Text

----------------------------------------------------------------------------
(* C10: as_str_fixed_dp::<N> returns exactly as_str() whenever the layout   *)
(* is Exponent or Nonfinite, or the layout is Decimal and the source has    *)
(* fewer than N fractional digits.                                          *)
C10_FixedDpOtherwiseWhole ==
    (FixedDpReturned
        /\ (Layout \in {"Exponent", "Nonfinite"}
            \/ (Layout = "Decimal" /\ Len(SourceFraction) < call.dp))) =>
        /\ ret = RetStr
        /\ view = Text

\* the same statement where offset_decimal_point + N + 1 fits the word
C10_FixedDpOtherwiseWholeWhereItFits ==
    (FixedDpReturned /\ LengthFits(call.dp)
        /\ (Layout \in {"Exponent", "Nonfinite"}
            \/ (Layout = "Decimal" /\ Len(SourceFraction) < call.dp))) =>
        /\ ret = RetStr
        /\ view = Text

-----------------------------------------------------------------------------
\* C11: whatever DECIMAL_PLACES is, a value near the top of the machine word
\* included, the string as_str_fixed_dp returns is a prefix of as_str() and
\* is at most `initialized` bytes long: the view only ever shortens the text.
C11_FixedDpIsPrefix ==
    (FixedDpReturned /\ ret = RetStr) =>
        /\ Len(view) <= formatted.initialized
        /\ view = Take(Text, Len(view))

\* a DECIMAL_PLACES whose length sum wraps round the machine word and lands
\* inside the text: the view is cut short of the whole text
C11_Witness ==
    /\ FixedDpReturned
    /\ ret = RetStr
    /\ Layout = "Decimal"
    /\ Overflows(formatted.meta.offset_decimal_point + call.dp)
    /\ Len(view) < formatted.initialized
    /\ view = Take(Text, Len(view))

-----------------------------------------------------------------------------
\* C12: for a Formatted made by any of the four entry points and any
\* DECIMAL_PLACES N, copy_to_bytes::<N> into a buffer of BUFFER_LEN + N bytes
\* returns Some, never None: the exact output length never exceeds 32 + N.
C12_CapacityPlusPlacesSuffices ==
    (CopyReturned /\ Len(buf_in) = BUFFER_LEN + call.dp) =>
        /\ ret.kind = "Some"
        /\ ret.value <= BUFFER_LEN + call.dp

\* the longest scientific text of a double, 17 digits and a three-digit
\* negative exponent, copied with N > 0 decimal places into 32 + N bytes
C12_Witness ==
    /\ CopyReturned
    /\ Layout = "Exponent"
    /\ formatted.initialized >= MaxDigits64 + 6
    /\ call.dp > 0
    /\ Len(buf_in) = BUFFER_LEN + call.dp
    /\ ret.kind = "Some"

-----------------------------------------------------------------------------
(* The entry point that has just returned, and the float it was given *)

Formatted64 == phase = "ready" /\ call.op = "format_f64"
Formatted32 == phase = "ready" /\ call.op = "format_f32"
FormattedFinite64 == phase = "ready" /\ call.op = "format_finite_f64"
FormattedFinite32 == phase = "ready" /\ call.op = "format_finite_f32"
JustFormatted == Formatted64 \/ Formatted32 \/ FormattedFinite64 \/ FormattedFinite32

\* the text the claim fixes for an exponent field of all ones
NonfiniteText(mantissa_is_zero, sign) ==
    IF ~mantissa_is_zero THEN <<"N", "a", "N">>
    ELSE IF sign = 1 THEN <<"-", "i", "n", "f">>
    ELSE <<"i", "n", "f">>

IsNonfiniteResult(expected) ==
    /\ Layout = "Nonfinite"
    /\ Text = expected
    /\ formatted.initialized = Len(expected)

\* C13: for every 64-bit and 32-bit pattern whose exponent field is all
\* ones, format_f64 / format_f32 returns the layout Nonfinite with the text
\* "NaN" when the mantissa is not zero (whatever the sign), "-inf" when it is
\* zero and the sign bit is set, "inf" when it is zero and the sign bit is
\* clear, and initialized 3, 4, 3: never "+inf", never "-NaN".
C13_NonfiniteClassification ==
    /\ (Formatted64 /\ ExponentField64(call.d) = F64_EXP_ALL_ONES) =>
           IsNonfiniteResult(NonfiniteText(MantissaIsZero64(call.d), SignField(call.d)))
    /\ (Formatted32 /\ ExponentField32(call.d) = F32_EXP_ALL_ONES) =>
           IsNonfiniteResult(NonfiniteText(MantissaIsZero32(call.d), SignField(call.d)))

\* a NaN with the sign bit set, formatted as "NaN"
C13_Witness ==
    /\ Formatted64
    /\ ExponentField64(call.d) = F64_EXP_ALL_ONES
    /\ ~MantissaIsZero64(call.d)
    /\ SignField(call.d) = 1
    /\ Layout = "Nonfinite"
    /\ Text = <<"N", "a", "N">>
    /\ formatted.initialized = 3

-----------------------------------------------------------------------------
\* C14: for every bit pattern whose exponent field is not all ones (zero,
\* subnormal and normal values of either sign), format_f64(d) returns what
\* format_finite_f64(d) returns, text, layout and initialized, and
\* format_f32(f) what format_finite_f32(f) returns; the result of a finite
\* input is never Nonfinite.
C14_FiniteDelegates ==
    /\ (Formatted64 /\ ExponentField64(call.d) # F64_EXP_ALL_ONES) =>
           /\ formatted \in format_finite_f64(call.d)
           /\ Layout # "Nonfinite"
    /\ (Formatted32 /\ ExponentField32(call.d) # F32_EXP_ALL_ONES) =>
           /\ formatted \in format_finite_f32(call.d)
           /\ Layout # "Nonfinite"

\* a normal negative float given to format_f32: the result is one
\* format_finite_f32 gives for it, sign included
C14_Witness ==
    /\ Formatted32
    /\ ExponentField32(call.d) = 127
    /\ SignField(call.d) = 1
    /\ formatted \in format_finite_f32(call.d)
    /\ Text[1] = "-"
    /\ Layout = "Decimal"

-----------------------------------------------------------------------------
\* C15: for a Decimal or Exponent text, copy_to_bytes::<F> with F the number
\* of fractional digits the text already has (0 for an Exponent text without
\* '.') writes exactly as_bytes() and returns initialized: asking for the
\* places already there is the identity.
C15_SamePlacesIsIdentity ==
    (/\ CopyReturned
     /\ Layout \in {"Decimal", "Exponent"}
     /\ call.dp = Len(SourceFraction)
     /\ Len(buf_in) >= formatted.initialized) =>
        /\ ret = RetSome(formatted.initialized)
        /\ Written = as_bytes(formatted)

\* "1.91e20" copied with two decimal places
C15_Witness ==
    /\ CopyReturned
    /\ Layout = "Exponent"
    /\ Len(SourceFraction) = 2
    /\ call.dp = 2
    /\ ret = RetSome(formatted.initialized)
    /\ Written = Text

-----------------------------------------------------------------------------
\* C19: every Formatted value returned by format_f64, format_f32,
\* format_finite_f64 or format_finite_f32, for any input bit pattern and
\* through either kind of entry point, has 1 <= initialized <= BUFFER_LEN.
C19_InitializedWithinCapacity ==
    phase # "new" =>
        /\ 1 <= formatted.initialized
        /\ formatted.initialized <= BUFFER_LEN

\* a pattern with the exponent field all ones given to format_finite_f64 and
\* rendered as one of the longest texts: sign, 17 digits, '.', "e-308"
C19_Witness ==
    /\ FormattedFinite64
    /\ ExponentField64(call.d) = F64_EXP_ALL_ONES
    /\ Layout = "Exponent"
    /\ formatted.initialized = MaxDigits64 + 7
    /\ formatted.initialized <= BUFFER_LEN

-----------------------------------------------------------------------------
Contains(s, c) == \E i \in 1..Len(s) : s[i] = c
\* the byte of the text at a 0-based offset
ByteAt(offset) == Text[offset + 1]

DecimalDescribed ==
    LET offset_decimal_point == formatted.meta.offset_decimal_point
    IN  /\ 0 < offset_decimal_point
        /\ offset_decimal_point < formatted.initialized - 1
        /\ ByteAt(offset_decimal_point) = "."
        /\ ~Contains(Text, "e")

ExponentDescribed ==
    LET offset_decimal_point == formatted.meta.offset_decimal_point
        offset_exponent == formatted.meta.offset_exponent
    IN  /\ offset_exponent < formatted.initialized
        /\ ByteAt(offset_exponent) = "e"
        /\ IF IsSome(offset_decimal_point)
           THEN /\ Unwrap(offset_decimal_point) < offset_exponent
                /\ ByteAt(Unwrap(offset_decimal_point)) = "."
           ELSE ~Contains(Text, ".")

NonfiniteDescribed ==
    Text \in {<<"N", "a", "N">>, <<"i", "n", "f">>, <<"-", "i", "n", "f">>}

\* C20: the metadata of every Formatted value the entry points produce
\* describes its text exactly.  Decimal: 0 < offset_decimal_point <
\* initialized - 1, the byte there is '.', the text has no 'e'.  Exponent:
\* offset_exponent < initialized and the byte there is 'e'; a present
\* offset_decimal_point is below offset_exponent and indexes a '.', an absent
\* one means the text has no '.'.  Nonfinite: the text is "NaN", "inf" or
\* "-inf".
C20_MetadataDescribesText ==
    phase # "new" =>
        /\ Layout = "Decimal" => DecimalDescribed
        /\ Layout = "Exponent" => ExponentDescribed
        /\ Layout = "Nonfinite" => NonfiniteDescribed

\* a negative scientific text with a decimal point, fresh from format_f32
C20_Witness ==
    /\ Formatted32
    /\ Layout = "Exponent"
    /\ IsSome(formatted.meta.offset_decimal_point)
    /\ Unwrap(formatted.meta.offset_decimal_point) = 2
    /\ ExponentDescribed

-----------------------------------------------------------------------------
\* C21: no view and no copy reads a byte of the internal array at an index
\* >= initialized: whatever as_bytes, as_str, as_str_fixed_dp::<N> and
\* copy_to_bytes::<N> hand out, truncating, padding or inserting a '.',
\* comes from the indices [0, initialized), for every N.  A byte read from
\* beyond them is a never-written one.
C21_NoReadPastInitialized ==
    phase = "returned" =>
        /\ ~Contains(view, UNINIT)
        /\ ~Contains(buf, UNINIT)

\* the padding path: a Decimal text copied out longer than it is, the extra
\* bytes being '0', none of them taken from the array
C21_Witness ==
    /\ CopyReturned
    /\ Layout = "Decimal"
    /\ Succeeded
    /\ ret.value > formatted.initialized
    /\ ret.value <= Len(buf)
    /\ Written = Text \o Fill("0", ret.value - formatted.initialized)

-----------------------------------------------------------------------------
\* the destination beyond the first k bytes is as the caller handed it over
FrameBeyond(k) ==
    /\ Len(buf) = Len(buf_in)
    /\ \A i \in (k + 1)..Len(buf) : buf[i] = buf_in[i]

\* C22: a copy_to_bytes::<N> that returns Some(K) writes only the destination
\* indices [0, K): every destination byte at an index >= K keeps the value it
\* had before the call, in every layout and for every N.
C22_WritesOnlyReported ==
    (CopyReturned /\ Succeeded) => FrameBeyond(ret.value)

\* C22 where the exact output length fits the machine word
C22_WritesOnlyReportedWhereItFits ==
    (CopyReturned /\ Succeeded /\ LengthFits(call.dp)) => FrameBeyond(ret.value)

\* a copy that pads and inserts a '.' into a buffer longer than its output,
\* the bytes after the output untouched
C22_FrameWitness ==
    /\ CopyReturned
    /\ Succeeded
    /\ LengthFits(call.dp)
    /\ Layout = "Exponent"
    /\ ~IsSome(formatted.meta.offset_decimal_point)
    /\ call.dp > 0
    /\ ret.value < Len(buf)
    /\ FrameBeyond(ret.value)

-----------------------------------------------------------------------------
\* a destination of the same length with other contents than the one handed over
OTHER_JUNK == "@"
SameLengthBuffers == {Fill(JUNK, Len(buf_in)), Fill(OTHER_JUNK, Len(buf_in))}

\* every outcome copy_to_bytes can have on `b` returns what this call returned
\* and, where that is Some(K), has the same first K bytes
SameOutcomeOn(b) ==
    \A out \in copy_to_bytes(formatted, call.dp, b, overflow_checks) :
        /\ out.ret = ret
        /\ Succeeded => Take(out.buf, ret.value) = Written

\* what a call returned is what the same call returns on the Formatted value
\* alone, whatever the buffer held and whatever was called before
ReturnedDependsOnInputsOnly ==
    /\ CopyReturned => \A b \in SameLengthBuffers : SameOutcomeOn(b)
    /\ FixedDpReturned =>
           as_str_fixed_dp(formatted, call.dp, overflow_checks) = [ret |-> ret, view |-> view]
    /\ (phase = "returned" /\ call.op \in {"as_str", "as_bytes"}) =>
           view = as_bytes(formatted)

ReturnedDependsOnInputsOnlyWhereItFits ==
    /\ (CopyReturned /\ LengthFits(call.dp)) => \A b \in SameLengthBuffers : SameOutcomeOn(b)
    /\ FixedDpReturned =>
           as_str_fixed_dp(formatted, call.dp, overflow_checks) = [ret |-> ret, view |-> view]
    /\ (phase = "returned" /\ call.op \in {"as_str", "as_bytes"}) =>
           view = as_bytes(formatted)

\* no call on a Formatted value changes its bytes, meta or initialized
FormattedKept == phase # "new" => formatted' = formatted

\* C23: after any sequence of as_str, as_bytes, as_str_fixed_dp::<N> and
\* copy_to_bytes::<N> calls, with any N and any destination, the text, meta
\* and initialized of the Formatted value are unchanged, and what each call
\* returns and the first K bytes it writes depend only on the Formatted
\* value, N and the length of the buffer: not on what the buffer held, not
\* on the calls made before.
C23_Pure ==
    [][FormattedKept]_vars /\ []ReturnedDependsOnInputsOnly

\* C23 for the N whose exact output length fits the machine word
C23_PureWhereItFits ==
    [][FormattedKept]_vars /\ []ReturnedDependsOnInputsOnlyWhereItFits

-----------------------------------------------------------------------------
\* C24: for a Decimal text as_str_fixed_dp::<0> returns the integer part
\* followed by the '.' itself, offset_decimal_point + 1 bytes with no digit
\* after the point: one byte more than copy_to_bytes::<0> writes for the same
\* value, which is the integer part without the '.'.
C24_ZeroPlacesViewKeepsPoint ==
    (FixedDpReturned /\ Layout = "Decimal" /\ call.dp = 0) =>
        /\ ret = RetStr
        /\ view = SourceInteger \o <<".">>
        /\ Len(view) = formatted.meta.offset_decimal_point + 1
        /\ \A out \in copy_to_bytes(formatted, 0, Fill(JUNK, BUFFER_LEN), overflow_checks) :
               /\ out.ret = RetSome(Len(view) - 1)
               /\ Take(out.buf, Len(view) - 1) = SourceInteger

\* "-19.1" viewed with zero places: "-19."
C24_Witness ==
    /\ FixedDpReturned
    /\ Layout = "Decimal"
    /\ call.dp = 0
    /\ formatted.meta.offset_decimal_point = 3
    /\ view = <<"-", "1", "9", ".">>

====
